---------------------------- MODULE Spec2Model ----------------------------
(***************************************************************************)
(* A model of the blogging system: the Controller's session state machine  *)
(* (blogging/controller.py), the Blog objects and their post stores        *)
(* (blogging/blog.py, blogging/dao/post_dao_pickle.py) and the blog        *)
(* directory (blogging/dao/blog_dao_json.py), with the files they persist  *)
(* to.  Blog objects live in a heap and are named by references, because   *)
(* the controller keeps a reference to the current blog and update_blog    *)
(* mutates the object it finds in the directory in place.                  *)
(***************************************************************************)
EXTENDS Integers, Sequences, FiniteSets, TLC

VARIABLES
    usersFile,      \* the users file: [exists, lines]
    cfgAutosave,    \* Configuration.autosave (class attribute)
    autosave,       \* Controller.autosave
    users,          \* Controller.users: username -> stored hash
    logged,         \* Controller.logged
    username,       \* Controller.username
    password_hash,  \* Controller.password_hash
    heap,           \* the Blog objects: reference -> fields, posts and counter
    blogs,          \* BlogDAOJSON.blogs: an insertion-ordered dict key -> reference
    current_blog,   \* Controller.current_blog: a reference or NoRef
    blogsFile,      \* the blogs JSON file
    postsFiles,     \* the per-blog posts files, by the blog id in the file name
    clock,          \* the time the clock was read last
    tick,           \* the time between two readings of the clock
    op,             \* the operation that was called last
    result          \* what it returned or raised

vars == <<usersFile, cfgAutosave, autosave, users, logged, username, password_hash,
          heap, blogs, current_blog, blogsFile, postsFiles, clock, tick, op, result>>

session == <<users, logged, username, password_hash>>
files == <<blogsFile, postsFiles>>
config == <<usersFile, cfgAutosave, autosave>>
time == <<clock, tick>>

-----------------------------------------------------------------------------
(* Bounds of the model *)

MaxBlogId == 2      \* blog ids of Spec: 1..MaxBlogId
MaxCode == 1        \* post codes of Spec and SpecSession: 1..MaxCode
MaxPostCode == 3    \* post codes of SpecPosts: 1..MaxPostCode
MaxClock == 3       \* clock readings of SpecTime: 0..MaxClock

BlogIds == 1..MaxBlogId

NoRef == 0
NoneStr == "None"

-----------------------------------------------------------------------------
(* Values returned and exceptions raised *)

Outcome(e, k, b, r, l) == [exc |-> e, kind |-> k, b |-> b, ref |-> r, list |-> l]
Raise(e) == Outcome(e, "raise", FALSE, NoRef, <<>>)
RetBool(b) == Outcome("", "bool", b, NoRef, <<>>)
RetNone == Outcome("", "none", FALSE, NoRef, <<>>)
RetBlog(r) == IF r = NoRef THEN RetNone ELSE Outcome("", "blog", FALSE, r, <<>>)
RetBlogs(l) == Outcome("", "blogs", FALSE, NoRef, l)
RetPost(p) == Outcome("", "post", FALSE, NoRef, <<p>>)
RetPosts(l) == Outcome("", "posts", FALSE, NoRef, l)
\* A dialog handler returns nothing and leaves a text in its status label.
Status(text) == Outcome(text, "status", FALSE, NoRef, <<>>)


-----------------------------------------------------------------------------
(* Python helpers *)

\* "term in text" on str: term occurs in text as a contiguous substring.
Contains(term, text) ==
    \E i \in 0..(Len(text) - Len(term)) :
        \A j \in 1..Len(term) : text[i + j] = term[j]

Max(a, b) == IF a >= b THEN a ELSE b

MaxOf(S) == CHOOSE m \in S : \A x \in S : x <= m

Reverse(s) == [i \in 1..Len(s) |-> s[Len(s) + 1 - i]]

\* hashlib.sha256(password.encode()).hexdigest(): a fixed function of the
\* password, with distinct digests for the passwords of the model.
Sha256Hex(password) ==
    CASE password = "pw1" -> "0b14d501"
      [] password = "pw2" -> "6cf615d5"
      [] OTHER -> "e3b0c442"

-----------------------------------------------------------------------------
(* The insertion-ordered dict BlogDAOJSON.blogs: a sequence of entries *)

Keys(d) == { d[i].key : i \in DOMAIN d }

DictGet(d, k) ==
    IF k \in Keys(d)
    THEN d[CHOOSE i \in DOMAIN d : d[i].key = k].ref
    ELSE NoRef

\* d[k] = r: an existing key keeps its place, a new key goes last.
DictSet(d, k, r) ==
    IF k \in Keys(d)
    THEN [i \in DOMAIN d |-> IF d[i].key = k THEN [key |-> k, ref |-> r] ELSE d[i]]
    ELSE Append(d, [key |-> k, ref |-> r])

DictDel(d, k) == SelectSeq(d, LAMBDA e : e.key # k)

DictValues(d) == [i \in DOMAIN d |-> d[i].ref]

-----------------------------------------------------------------------------
(* Files *)

\* A file is missing, empty (of size 0), ok (data is what the program wrote or
\* would write) or corrupt (reading it with pickle.load or json.load raises
\* the exception named).
MissingFile == [state |-> "missing", data |-> <<>>, raises |-> ""]
EmptyFile == [state |-> "empty", data |-> <<>>, raises |-> ""]
FileOf(data) == [state |-> "ok", data |-> data, raises |-> ""]
CorruptFile(e) == [state |-> "corrupt", data |-> <<>>, raises |-> e]

-----------------------------------------------------------------------------
(* blogging/post.py: a post's code, title, text, creation_time and          *)
(* update_time.  The times are readings of the clock, taken when the post   *)
(* is constructed and when it is updated.                                   *)

\* datetime.datetime.now(): tick later than the reading before it.
now == clock + tick

Post(code, title, text, t) ==
    [code |-> code, title |-> title, text |-> text,
     creation_time |-> t, update_time |-> t]

PostUpdate(post, title, text, t) ==
    [post EXCEPT !.title = title, !.text = text, !.update_time = t]

-----------------------------------------------------------------------------
(* PostDAOPickle, as operators on a post store [posts, counter] *)

\* load_posts: an existing, non-empty file replaces the posts and sets the
\* counter to the largest code; anything else leaves the store empty.
load_posts(file) ==
    IF file.state = "ok"
    THEN [posts |-> file.data,
          counter |-> IF file.data # <<>>
                      THEN MaxOf({ file.data[i].code : i \in DOMAIN file.data })
                      ELSE 0]
    ELSE [posts |-> <<>>, counter |-> 0]

\* The exceptions load_posts catches (UnpicklingError is a PickleError).
CaughtByLoadPosts ==
    {"FileNotFoundError", "PickleError", "UnpicklingError", "EOFError", "AttributeError"}

\* The exception that escapes load_posts ("": none does): the one pickle.load
\* raises on a corrupt file, unless it is one of those caught.
load_posts_raises(file) ==
    IF file.state = "corrupt" /\ file.raises \notin CaughtByLoadPosts
    THEN file.raises
    ELSE ""

\* PostDAOPickle.__init__ under Configuration.autosave = as
PostDAOPickle(as, file) ==
    IF as THEN load_posts(file) ELSE [posts |-> <<>>, counter |-> 0]

PostDAOPickle_raises(as, file) == IF as THEN load_posts_raises(file) ELSE ""

\* save_posts: the file named after the blog's id, when autosave is on.
save_posts(as, pfiles, id, posts) ==
    IF as THEN [pfiles EXCEPT ![id] = FileOf(posts)] ELSE pfiles

\* search_post: the first post with the code, as an index (0: None).
search_post_index(posts, code) ==
    IF \E i \in DOMAIN posts : posts[i].code = code
    THEN CHOOSE i \in DOMAIN posts :
            /\ posts[i].code = code
            /\ \A j \in 1..(i - 1) : posts[j].code # code
    ELSE 0

dao_create_post(store, post) ==
    [posts |-> Append(store.posts, post), counter |-> Max(store.counter, post.code)]

\* update_post that puts a new post in the place of the old one.
dao_update_post_fresh(store, code, title, text, t) ==
    LET i == search_post_index(store.posts, code) IN
    IF i = 0 THEN store
    ELSE [store EXCEPT !.posts[i] = Post(code, title, text, t)]

dao_update_post(store, code, title, text, t) ==
    LET i == search_post_index(store.posts, code) IN
    IF i = 0 THEN store
    ELSE [store EXCEPT !.posts[i] = PostUpdate(store.posts[i], title, text, t)]

dao_delete_post(store, code) ==
    LET i == search_post_index(store.posts, code) IN
    IF i = 0 THEN store
    ELSE [store EXCEPT !.posts =
            [j \in 1..(Len(store.posts) - 1) |->
                IF j < i THEN store.posts[j] ELSE store.posts[j + 1]]]

dao_retrieve_posts(posts, term) ==
    SelectSeq(posts, LAMBDA p : Contains(term, p.title) \/ Contains(term, p.text))

\* list_posts in storage order, oldest first.
dao_list_posts_oldest_first(posts) == posts

dao_list_posts(posts) == Reverse(posts)

-----------------------------------------------------------------------------
(* blogging/blog.py *)

\* Blog.__init__: the fields and a fresh post store, loaded from the posts
\* file of the id when Configuration.autosave is on.
Blog(as, pfiles, id, name, url, email) ==
    LET store == PostDAOPickle(as, pfiles[id]) IN
    [id |-> id, name |-> name, url |-> url, email |-> email,
     posts |-> store.posts, counter |-> store.counter]

\* The exception that escapes Blog.__init__ ("": none does).
Blog_raises(as, pfiles, id) == PostDAOPickle_raises(as, pfiles[id])

\* Blog.__eq__
BlogEq(a, b) ==
    a.id = b.id /\ a.name = b.name /\ a.url = b.url /\ a.email = b.email

BlogRecord(b) == [id |-> b.id, name |-> b.name, url |-> b.url, email |-> b.email]

-----------------------------------------------------------------------------
(* BlogDAOJSON *)

\* save_blogs: the list of the blogs' records, in dict order, when autosave
\* is on.
save_blogs(as, file, d, h) ==
    IF as THEN FileOf([i \in DOMAIN d |-> BlogRecord(h[d[i].ref])]) ELSE file

\* A new object's reference: one that names no live object.
NewRef(h, cur) ==
    1 + MaxOf(DOMAIN h \cup {cur})

\* The heap with object r stored (allocated or overwritten).
HeapPut(h, r, b) == [x \in DOMAIN h \cup {r} |-> IF x = r THEN b ELSE h[x]]

\* Objects that neither the directory d nor the controller (cur) refers to
\* are gone.
Live(h, d, cur) ==
    [x \in DOMAIN h \cap ({ d[i].ref : i \in DOMAIN d } \cup {cur}) |-> h[x]]

\* Object identities carry no meaning of their own, so the states are kept in
\* one naming: the object stored i-th in the directory d is object i, and an
\* object only the controller holds (cur) comes after them.  An object is
\* stored under one key at most.
CanonRef(d, x) ==
    IF x = NoRef THEN NoRef
    ELSE IF \E i \in DOMAIN d : d[i].ref = x
    THEN CHOOSE i \in DOMAIN d : d[i].ref = x
    ELSE Len(d) + 1

Canon(d, h, cur) ==
    LET live == { d[i].ref : i \in DOMAIN d } \cup ({cur} \ {NoRef})
    IN [blogs |-> [i \in DOMAIN d |-> [key |-> d[i].key, ref |-> i]],
        heap |-> [y \in { CanonRef(d, x) : x \in live } |->
                    h[CHOOSE x \in live : CanonRef(d, x) = y]],
        cur |-> CanonRef(d, cur)]

\* load_blogs: one Blog per record of the file, stored under its id, in
\* file order.  Result: [blogs, heap].
RECURSIVE load_records(_, _, _, _, _)
load_records(recs, i, d, h, pfiles) ==
    IF i > Len(recs) THEN [blogs |-> d, heap |-> h]
    ELSE LET rec == recs[i]
             r == NewRef(h, NoRef)
             b == Blog(TRUE, pfiles, rec.id, rec.name, rec.url, rec.email)
             d1 == DictSet(d, rec.id, r)
         IN load_records(recs, i + 1, d1, Live(HeapPut(h, r, b), d1, NoRef), pfiles)

EmptyHeap == [x \in {} |-> 0]

load_blogs(as, file, pfiles) ==
    IF as /\ file.state = "ok"
    THEN LET loaded == load_records(file.data, 1, <<>>, EmptyHeap, pfiles)
             c == Canon(loaded.blogs, loaded.heap, NoRef)
         IN [blogs |-> c.blogs, heap |-> c.heap]
    ELSE [blogs |-> <<>>, heap |-> EmptyHeap]

\* The exceptions load_blogs catches.
CaughtByLoadBlogs == {"FileNotFoundError", "JSONDecodeError"}

\* The exception that escapes load_blogs ("": none does): the one json.load
\* raises, unless caught, or the one the first Blog(...) that fails raises.
load_blogs_raises(as, file, pfiles) ==
    IF as /\ file.state = "corrupt" /\ file.raises \notin CaughtByLoadBlogs
    THEN file.raises
    ELSE IF as /\ file.state = "ok"
              /\ \E i \in DOMAIN file.data : Blog_raises(TRUE, pfiles, file.data[i].id) # ""
    THEN LET i == CHOOSE i \in DOMAIN file.data :
                     /\ Blog_raises(TRUE, pfiles, file.data[i].id) # ""
                     /\ \A j \in 1..(i - 1) :
                            Blog_raises(TRUE, pfiles, file.data[j].id) = ""
         IN Blog_raises(TRUE, pfiles, file.data[i].id)
    ELSE ""

dao_search_blog(d, id) == DictGet(d, id)

dao_retrieve_blogs(d, h, term) ==
    DictValues(SelectSeq(d, LAMBDA e : Contains(term, h[e.ref].name)))

dao_list_blogs(d) == DictValues(d)


-----------------------------------------------------------------------------
(* Controller: construction and session *)

\* load_users: one entry per line of the users file, a later line for the
\* same username replacing an earlier one; no file, no users.
load_users(file) ==
    IF file.state = "ok"
    THEN [u \in { file.data[i][1] : i \in DOMAIN file.data } |->
            LET last == CHOOSE i \in DOMAIN file.data :
                            /\ file.data[i][1] = u
                            /\ \A j \in DOMAIN file.data :
                                   file.data[j][1] = u => j <= i
            IN file.data[last][2]]
    ELSE [u \in {} |-> ""]

UsersFiles ==
    { MissingFile,
      FileOf(<< <<"alice", Sha256Hex("pw1")>>, <<"bob", Sha256Hex("pw2")>> >>) }

\* Controller(autosave = a) under Configuration.autosave = as, on the files
\* given: the fields of the new controller and of its BlogDAOJSON, and the
\* exception that escapes the constructor ("": none; otherwise there is no
\* controller, and the fields are those of a controller without blogs).
NewController(a, as, ufile, bfile, pfiles) ==
    LET exc == load_blogs_raises(as, bfile, pfiles)
        loaded == IF exc = "" THEN load_blogs(as, bfile, pfiles)
                  ELSE [blogs |-> <<>>, heap |-> EmptyHeap]
    IN [autosave |-> (a \/ as),
        users |-> load_users(ufile),
        blogs |-> loaded.blogs,
        heap |-> loaded.heap,
        result |-> IF exc = "" THEN RetNone ELSE Raise(exc)]

\* Controller.__init__(autosave = a), on the files as they are.
Construct(a) ==
    LET c == NewController(a, cfgAutosave, usersFile, blogsFile, postsFiles) IN
    /\ autosave' = c.autosave
    /\ users' = c.users
    /\ username' = NoneStr
    /\ password_hash' = NoneStr
    /\ logged' = FALSE
    /\ blogs' = c.blogs
    /\ heap' = c.heap
    /\ current_blog' = NoRef
    /\ result' = c.result

\* The program is started, with the clock ticking by t, on one of the blogs
\* files bfiles and one of the families of posts files pfiles.
Boot(t, bfiles, pfiles) ==
    /\ usersFile \in UsersFiles
    /\ cfgAutosave \in BOOLEAN
    /\ blogsFile \in bfiles
    /\ postsFiles \in pfiles
    /\ \E a \in BOOLEAN :
          LET c == NewController(a, cfgAutosave, usersFile, blogsFile, postsFiles) IN
          /\ autosave = c.autosave
          /\ users = c.users
          /\ blogs = c.blogs
          /\ heap = c.heap
          /\ result = c.result
    /\ username = NoneStr
    /\ password_hash = NoneStr
    /\ logged = FALSE
    /\ current_blog = NoRef
    /\ clock = 0
    /\ tick = t
    /\ op = "init"

\* A fresh installation: no blogs file, no posts file.
Init == Boot(0, {MissingFile}, {[i \in BlogIds |-> MissingFile]})

\* The program is started again: a new Controller over the same files.
Restart(a) ==
    /\ Construct(a)
    /\ op' = "restart"
    /\ UNCHANGED <<usersFile, cfgAutosave, files, time>>

\* An operation that raises: nothing but the outcome changes.
Raises(name, e) ==
    /\ op' = name
    /\ result' = Raise(e)
    /\ UNCHANGED <<config, time, session, heap, blogs, current_blog, files>>

\* An operation that only returns a value.
Returns(name, r) ==
    /\ op' = name
    /\ result' = r
    /\ UNCHANGED <<config, time, session, heap, blogs, current_blog, files>>

\* login with the credentials checked before the session.
login_credentials_first(u, p) ==
    IF u \notin DOMAIN users THEN Raises("login", "InvalidLoginException")
    ELSE IF Sha256Hex(p) # users[u] THEN Raises("login", "InvalidLoginException")
    ELSE IF logged THEN Raises("login", "DuplicateLoginException")
    ELSE /\ username' = u
         /\ password_hash' = Sha256Hex(p)
         /\ logged' = TRUE
         /\ op' = "login"
         /\ result' = RetBool(TRUE)
         /\ UNCHANGED <<config, time, users, heap, blogs, current_blog, files>>

\* login with the password never compared.
login_any_password(u, p) ==
    IF logged THEN Raises("login", "DuplicateLoginException")
    ELSE IF u \notin DOMAIN users THEN Raises("login", "InvalidLoginException")
    ELSE /\ username' = u
         /\ password_hash' = Sha256Hex(p)
         /\ logged' = TRUE
         /\ op' = "login"
         /\ result' = RetBool(TRUE)
         /\ UNCHANGED <<config, time, users, heap, blogs, current_blog, files>>

login(u, p) ==
    IF logged THEN Raises("login", "DuplicateLoginException")
    ELSE IF u \notin DOMAIN users THEN Raises("login", "InvalidLoginException")
    ELSE IF Sha256Hex(p) # users[u] THEN Raises("login", "InvalidLoginException")
    ELSE /\ username' = u
         /\ password_hash' = Sha256Hex(p)
         /\ logged' = TRUE
         /\ op' = "login"
         /\ result' = RetBool(TRUE)
         /\ UNCHANGED <<config, time, users, heap, blogs, current_blog, files>>

\* logout that keeps the current blog selected.
logout_keeps_blog ==
    IF ~logged THEN Raises("logout", "InvalidLogoutException")
    ELSE /\ username' = NoneStr
         /\ password_hash' = NoneStr
         /\ logged' = FALSE
         /\ op' = "logout"
         /\ result' = RetBool(TRUE)
         /\ UNCHANGED <<config, time, users, heap, blogs, current_blog, files>>

logout ==
    IF ~logged THEN Raises("logout", "InvalidLogoutException")
    ELSE /\ username' = NoneStr
         /\ password_hash' = NoneStr
         /\ logged' = FALSE
         /\ current_blog' = NoRef
         /\ heap' = Live(heap, blogs, NoRef)
         /\ op' = "logout"
         /\ result' = RetBool(TRUE)
         /\ UNCHANGED <<config, time, users, blogs, files>>


-----------------------------------------------------------------------------
(* Controller: blogs *)

search_blog(id) ==
    IF ~logged THEN Raises("search_blog", "IllegalAccessException")
    ELSE Returns("search_blog", RetBlog(dao_search_blog(blogs, id)))

\* BlogDAOJSON.create_blog that stores the blog whether or not the id is taken.
dao_create_blog_overwrite(d, h, file, r) ==
    LET d1 == DictSet(d, h[r].id, r)
    IN [ok |-> TRUE, blogs |-> d1, file |-> save_blogs(cfgAutosave, file, d1, h)]

\* BlogDAOJSON.create_blog(blog), for an object r of the heap h: refused
\* when the blog's id is a key already, else stored under its id and saved.
\* Result: [ok, blogs, file].
dao_create_blog(d, h, file, r) ==
    IF h[r].id \in Keys(d) THEN [ok |-> FALSE, blogs |-> d, file |-> file]
    ELSE LET d1 == DictSet(d, h[r].id, r)
         IN [ok |-> TRUE, blogs |-> d1, file |-> save_blogs(cfgAutosave, file, d1, h)]

create_blog(id, name, url, email) ==
    IF ~logged THEN Raises("create_blog", "IllegalAccessException")
    ELSE IF Blog_raises(cfgAutosave, postsFiles, id) # ""
    THEN Raises("create_blog", Blog_raises(cfgAutosave, postsFiles, id))
    ELSE LET r == NewRef(heap, current_blog)
             h1 == HeapPut(heap, r, Blog(cfgAutosave, postsFiles, id, name, url, email))
             new == dao_create_blog(blogs, h1, blogsFile, r)
         IN IF ~new.ok
            THEN Raises("create_blog", "IllegalOperationException")
            ELSE LET c == Canon(new.blogs, h1, current_blog)
                 IN /\ blogs' = c.blogs
                    /\ heap' = c.heap
                    /\ current_blog' = c.cur
                    /\ blogsFile' = new.file
                    /\ op' = "create_blog"
                    /\ result' = RetBlog(CanonRef(new.blogs, r))
                    /\ UNCHANGED <<config, time, session, postsFiles>>

retrieve_blogs(term) ==
    IF ~logged THEN Raises("retrieve_blogs", "IllegalAccessException")
    ELSE Returns("retrieve_blogs", RetBlogs(dao_retrieve_blogs(blogs, heap, term)))

\* BlogDAOJSON.delete_blog(id) that leaves the entry in the directory.
dao_delete_blog_keeps(d, h, file, id) ==
    IF id \notin Keys(d) THEN [ok |-> FALSE, blogs |-> d, file |-> file]
    ELSE [ok |-> TRUE, blogs |-> d, file |-> save_blogs(cfgAutosave, file, d, h)]

\* BlogDAOJSON.update_blog(id, blog): the entry of an existing key is set and
\* the directory saved.  Result: [ok, blogs, file].
dao_update_blog(d, h, file, id, r) ==
    IF id \notin Keys(d) THEN [ok |-> FALSE, blogs |-> d, file |-> file]
    ELSE LET d1 == DictSet(d, id, r)
         IN [ok |-> TRUE, blogs |-> d1, file |-> save_blogs(cfgAutosave, file, d1, h)]

\* BlogDAOJSON.delete_blog(id).  Result: [ok, blogs, file].
dao_delete_blog(d, h, file, id) ==
    IF id \notin Keys(d) THEN [ok |-> FALSE, blogs |-> d, file |-> file]
    ELSE LET d1 == DictDel(d, id)
         IN [ok |-> TRUE, blogs |-> d1, file |-> save_blogs(cfgAutosave, file, d1, h)]

\* The guard left out: no blog counts as the current one.
IsCurrent_never(h, r, cur) == FALSE

\* The guard "self.current_blog and blog == self.current_blog".
IsCurrent(h, r, cur) == cur # NoRef /\ BlogEq(h[r], h[cur])

update_blog(orig, id, name, url, email) ==
    IF ~logged THEN Raises("update_blog", "IllegalAccessException")
    ELSE LET r == dao_search_blog(blogs, orig) IN
         IF r = NoRef THEN Raises("update_blog", "IllegalOperationException")
         ELSE IF IsCurrent(heap, r, current_blog)
         THEN Raises("update_blog", "IllegalOperationException")
         ELSE LET h1 == [heap EXCEPT ![r].name = name, ![r].url = url,
                                     ![r].email = email]
              IN IF orig # id
                 THEN IF dao_search_blog(blogs, id) # NoRef
                      THEN \* raised after the fields were assigned
                           /\ heap' = h1
                           /\ op' = "update_blog"
                           /\ result' = Raise("IllegalOperationException")
                           /\ UNCHANGED <<config, time, session, blogs, current_blog, files>>
                      ELSE LET del == dao_delete_blog(blogs, h1, blogsFile, orig)
                               h2 == [h1 EXCEPT ![r].id = id]
                               new == dao_create_blog(del.blogs, h2, del.file, r)
                               c == Canon(new.blogs, h2, current_blog)
                           IN /\ heap' = c.heap
                              /\ blogs' = c.blogs
                              /\ current_blog' = c.cur
                              /\ blogsFile' = new.file
                              /\ op' = "update_blog"
                              /\ result' = RetBool(TRUE)
                              /\ UNCHANGED <<config, time, session, postsFiles>>
                 ELSE LET upd == dao_update_blog(blogs, h1, blogsFile, orig, r)
                      IN /\ heap' = h1
                         /\ blogs' = upd.blogs
                         /\ blogsFile' = upd.file
                         /\ op' = "update_blog"
                         /\ result' = RetBool(TRUE)
                         /\ UNCHANGED <<config, time, session, current_blog, postsFiles>>

\* delete_blog without the test for the current blog.
delete_blog_unguarded(id) ==
    IF ~logged THEN Raises("delete_blog", "IllegalAccessException")
    ELSE LET r == dao_search_blog(blogs, id) IN
         IF r = NoRef THEN Raises("delete_blog", "IllegalOperationException")
         ELSE LET del == dao_delete_blog(blogs, heap, blogsFile, id)
                  c == Canon(del.blogs, heap, current_blog)
              IN /\ blogs' = c.blogs
                 /\ heap' = c.heap
                 /\ current_blog' = c.cur
                 /\ blogsFile' = del.file
                 /\ op' = "delete_blog"
                 /\ result' = RetBool(del.ok)
                 /\ UNCHANGED <<config, time, session, postsFiles>>

delete_blog(id) ==
    IF ~logged THEN Raises("delete_blog", "IllegalAccessException")
    ELSE LET r == dao_search_blog(blogs, id) IN
         IF r = NoRef THEN Raises("delete_blog", "IllegalOperationException")
         ELSE IF IsCurrent(heap, r, current_blog)
         THEN Raises("delete_blog", "IllegalOperationException")
         ELSE LET del == dao_delete_blog(blogs, heap, blogsFile, id)
                  c == Canon(del.blogs, heap, current_blog)
              IN /\ blogs' = c.blogs
                 /\ heap' = c.heap
                 /\ current_blog' = c.cur
                 /\ blogsFile' = del.file
                 /\ op' = "delete_blog"
                 /\ result' = RetBool(del.ok)
                 /\ UNCHANGED <<config, time, session, postsFiles>>

list_blogs ==
    IF ~logged THEN Raises("list_blogs", "IllegalAccessException")
    ELSE Returns("list_blogs", RetBlogs(dao_list_blogs(blogs)))

\* set_current_blog that drops the selection when the blog is not found.
set_current_blog_clears(id) ==
    IF ~logged THEN Raises("set_current_blog", "IllegalAccessException")
    ELSE LET r == dao_search_blog(blogs, id) IN
         IF r = NoRef
         THEN /\ current_blog' = NoRef
              /\ heap' = Live(heap, blogs, NoRef)
              /\ op' = "set_current_blog"
              /\ result' = Raise("IllegalOperationException")
              /\ UNCHANGED <<config, time, session, blogs, files>>
         ELSE /\ current_blog' = r
              /\ heap' = Live(heap, blogs, r)
              /\ op' = "set_current_blog"
              /\ result' = RetBool(TRUE)
              /\ UNCHANGED <<config, time, session, blogs, files>>

\* set_current_blog without the test of the session.
set_current_blog_no_login(id) ==
    LET r == dao_search_blog(blogs, id) IN
    IF r = NoRef THEN Raises("set_current_blog", "IllegalOperationException")
    ELSE /\ current_blog' = r
         /\ heap' = Live(heap, blogs, r)
         /\ op' = "set_current_blog"
         /\ result' = RetBool(TRUE)
         /\ UNCHANGED <<config, time, session, blogs, files>>

set_current_blog(id) ==
    IF ~logged THEN Raises("set_current_blog", "IllegalAccessException")
    ELSE LET r == dao_search_blog(blogs, id) IN
         IF r = NoRef THEN Raises("set_current_blog", "IllegalOperationException")
         ELSE /\ current_blog' = r
              /\ heap' = Live(heap, blogs, r)
              /\ op' = "set_current_blog"
              /\ result' = RetBool(TRUE)
              /\ UNCHANGED <<config, time, session, blogs, files>>

get_current_blog ==
    IF ~logged THEN Raises("get_current_blog", "IllegalAccessException")
    ELSE Returns("get_current_blog", RetBlog(current_blog))

unset_current_blog ==
    IF ~logged THEN Raises("unset_current_blog", "IllegalAccessException")
    ELSE /\ current_blog' = NoRef
         /\ heap' = Live(heap, blogs, NoRef)
         /\ op' = "unset_current_blog"
         /\ result' = RetBool(TRUE)
         /\ UNCHANGED <<config, time, session, blogs, files>>


-----------------------------------------------------------------------------
(* Controller: posts of the current blog *)

StoreOf(b) == [posts |-> b.posts, counter |-> b.counter]

\* PutStore on a list of posts that all Blog objects share.
PutStore_shared(name, store, r) ==
    /\ heap' = [x \in DOMAIN heap |->
                  [heap[x] EXCEPT !.posts = store.posts, !.counter = store.counter]]
    /\ postsFiles' = save_posts(cfgAutosave, postsFiles, heap[current_blog].id,
                                store.posts)
    /\ op' = name
    /\ result' = r
    /\ UNCHANGED <<config, tick, session, blogs, current_blog, blogsFile>>

\* The current blog's post store is replaced and, when autosave is on, saved
\* to the file named after the blog's id.
PutStore(name, store, r) ==
    /\ heap' = [heap EXCEPT ![current_blog].posts = store.posts,
                            ![current_blog].counter = store.counter]
    /\ postsFiles' = save_posts(cfgAutosave, postsFiles, heap[current_blog].id,
                                store.posts)
    /\ op' = name
    /\ result' = r
    /\ UNCHANGED <<config, tick, session, blogs, current_blog, blogsFile>>

search_post(code) ==
    IF ~logged THEN Raises("search_post", "IllegalAccessException")
    ELSE IF current_blog = NoRef THEN Raises("search_post", "NoCurrentBlogException")
    ELSE LET posts == heap[current_blog].posts
             i == search_post_index(posts, code)
         IN Returns("search_post", IF i = 0 THEN RetNone ELSE RetPost(posts[i]))

create_post(title, text) ==
    IF ~logged THEN Raises("create_post", "IllegalAccessException")
    ELSE IF current_blog = NoRef THEN Raises("create_post", "NoCurrentBlogException")
    ELSE LET store == StoreOf(heap[current_blog])
             new_post == Post(store.counter + 1, title, text, now)
         IN /\ PutStore("create_post", dao_create_post(store, new_post),
                        RetPost(new_post))
            /\ clock' = now

retrieve_posts(term) ==
    IF ~logged THEN Raises("retrieve_posts", "IllegalAccessException")
    ELSE IF current_blog = NoRef THEN Raises("retrieve_posts", "NoCurrentBlogException")
    ELSE Returns("retrieve_posts",
                 RetPosts(dao_retrieve_posts(heap[current_blog].posts, term)))

update_post(code, title, text) ==
    IF ~logged THEN Raises("update_post", "IllegalAccessException")
    ELSE IF current_blog = NoRef THEN Raises("update_post", "NoCurrentBlogException")
    ELSE LET store == StoreOf(heap[current_blog]) IN
         IF search_post_index(store.posts, code) = 0
         THEN Returns("update_post", RetBool(FALSE))
         ELSE /\ PutStore("update_post",
                          dao_update_post(store, code, title, text, now),
                          RetBool(TRUE))
              /\ clock' = now

\* delete_post that answers False when no blog is current.
delete_post_no_blog_false(code) ==
    IF ~logged THEN Raises("delete_post", "IllegalAccessException")
    ELSE IF current_blog = NoRef THEN Returns("delete_post", RetBool(FALSE))
    ELSE LET store == StoreOf(heap[current_blog]) IN
         IF search_post_index(store.posts, code) = 0
         THEN Returns("delete_post", RetBool(FALSE))
         ELSE /\ PutStore("delete_post", dao_delete_post(store, code), RetBool(TRUE))
              /\ UNCHANGED clock

delete_post(code) ==
    IF ~logged THEN Raises("delete_post", "IllegalAccessException")
    ELSE IF current_blog = NoRef THEN Raises("delete_post", "NoCurrentBlogException")
    ELSE LET store == StoreOf(heap[current_blog]) IN
         IF search_post_index(store.posts, code) = 0
         THEN Returns("delete_post", RetBool(FALSE))
         ELSE /\ PutStore("delete_post", dao_delete_post(store, code), RetBool(TRUE))
              /\ UNCHANGED clock

\* list_posts with the current blog checked before the session.
list_posts_blog_first ==
    IF current_blog = NoRef THEN Raises("list_posts", "NoCurrentBlogException")
    ELSE IF ~logged THEN Raises("list_posts", "IllegalAccessException")
    ELSE Returns("list_posts", RetPosts(dao_list_posts(heap[current_blog].posts)))

list_posts ==
    IF ~logged THEN Raises("list_posts", "IllegalAccessException")
    ELSE IF current_blog = NoRef THEN Raises("list_posts", "NoCurrentBlogException")
    ELSE Returns("list_posts", RetPosts(dao_list_posts(heap[current_blog].posts)))

-----------------------------------------------------------------------------
(* gui/post_manager_dialog.py: the handlers of the Create, Update and Delete *)
(* buttons, for the post number, title and text typed into the dialog.  The  *)
(* dialog keeps the controller and asks it for the current blog on every     *)
(* click, so the handlers can run in any state of the controller.            *)

\* _current_blog that falls back to the first blog of the directory when the
\* controller gives none.
gui_current_blog_default ==
    IF logged /\ current_blog # NoRef THEN current_blog
    ELSE IF blogs # <<>> THEN blogs[1].ref
    ELSE NoRef

\* _current_blog: what get_current_blog returns, None when it raises.
gui_current_blog ==
    IF ~logged THEN NoRef ELSE current_blog

\* The post store of blog object b is replaced and, when autosave is on,
\* saved to the file named after the blog's id.
PutStoreOf(b, name, store, r) ==
    /\ heap' = [heap EXCEPT ![b].posts = store.posts, ![b].counter = store.counter]
    /\ postsFiles' = save_posts(cfgAutosave, postsFiles, heap[b].id, store.posts)
    /\ op' = name
    /\ result' = r
    /\ UNCHANGED <<config, tick, session, blogs, current_blog, blogsFile>>

\* _handle_create: the post is made with the number typed and appended
\* through blog.post_dao.create_post.
gui_handle_create(code, title, text) ==
    LET blog == gui_current_blog IN
    IF title = <<>> \/ text = <<>>
    THEN Returns("_handle_create", Status("Post number, title, and text are required."))
    ELSE IF blog = NoRef
    THEN Returns("_handle_create", Status("Select a current blog first."))
    ELSE IF search_post_index(heap[blog].posts, code) # 0
    THEN Returns("_handle_create", Status("A post with that number already exists."))
    ELSE /\ PutStoreOf(blog, "_handle_create",
                       dao_create_post(StoreOf(heap[blog]), Post(code, title, text, now)),
                       Status("Post created."))
         /\ clock' = now

\* _handle_update: through Controller.update_post.
gui_handle_update(code, title, text) ==
    LET blog == gui_current_blog IN
    IF title = <<>> \/ text = <<>>
    THEN Returns("_handle_update", Status("Post number, title, and text are required."))
    ELSE IF blog = NoRef
    THEN Returns("_handle_update", Status("Select a current blog first."))
    ELSE IF search_post_index(heap[blog].posts, code) = 0
    THEN Returns("_handle_update", Status("Post not found."))
    ELSE IF ~logged
    THEN Returns("_handle_update", Status("IllegalAccessException"))
    ELSE IF current_blog = NoRef
    THEN Returns("_handle_update", Status("NoCurrentBlogException"))
    ELSE IF search_post_index(heap[current_blog].posts, code) = 0
    THEN Returns("_handle_update", Status("Post updated."))
    ELSE /\ PutStoreOf(current_blog, "_handle_update",
                       dao_update_post(StoreOf(heap[current_blog]), code, title, text, now),
                       Status("Post updated."))
         /\ clock' = now

\* _handle_delete: through Controller.delete_post, once the user has
\* confirmed.
gui_handle_delete(code, confirm) ==
    LET blog == gui_current_blog IN
    IF blog = NoRef
    THEN Returns("_handle_delete", Status("Select a current blog first."))
    ELSE IF search_post_index(heap[blog].posts, code) = 0
    THEN Returns("_handle_delete", Status("Post not found."))
    ELSE IF ~confirm
    THEN Returns("_handle_delete", Status(""))
    ELSE IF ~logged
    THEN Returns("_handle_delete", Status("IllegalAccessException"))
    ELSE IF current_blog = NoRef
    THEN Returns("_handle_delete", Status("NoCurrentBlogException"))
    ELSE IF search_post_index(heap[current_blog].posts, code) = 0
    THEN Returns("_handle_delete", Status("Post deleted."))
    ELSE /\ PutStoreOf(current_blog, "_handle_delete",
                       dao_delete_post(StoreOf(heap[current_blog]), code),
                       Status("Post deleted."))
         /\ UNCHANGED clock

-----------------------------------------------------------------------------
(* The system.  The operations are called with arguments from the sets of   *)
(* an input record I; create_post is held back once the current blog's      *)
(* counter has reached I.maxCode, which bounds the post codes.              *)

CounterBelow(max) ==
    logged /\ current_blog # NoRef => heap[current_blog].counter < max

SessionOp(I) ==
    \/ \E u \in I.usernames, p \in I.passwords : login(u, p)
    \/ logout

BlogOp(I) ==
    \/ \E id \in I.ids : search_blog(id)
    \/ \E id \in I.ids, d \in I.blogData : create_blog(id, d[1], d[2], d[3])
    \/ \E term \in I.terms : retrieve_blogs(term)
    \/ \E orig \in I.ids, id \in I.ids, d \in I.blogData :
           update_blog(orig, id, d[1], d[2], d[3])
    \/ \E id \in I.ids : delete_blog(id)
    \/ list_blogs
    \/ \E id \in I.ids : set_current_blog(id)
    \/ get_current_blog
    \/ unset_current_blog

PostOp(I) ==
    \/ \E code \in 1..(I.maxCode + 1) : search_post(code)
    \/ \E d \in I.postData : CounterBelow(I.maxCode) /\ create_post(d[1], d[2])
    \/ \E term \in I.terms : retrieve_posts(term)
    \/ \E code \in 1..(I.maxCode + 1), d \in I.postData : update_post(code, d[1], d[2])
    \/ \E code \in 1..(I.maxCode + 1) : delete_post(code)
    \/ list_posts

NextOn(I) ==
    \/ SessionOp(I)
    \/ BlogOp(I)
    \/ PostOp(I)
    \/ \E a \in BOOLEAN : Restart(a)

\* Spec: every operation on two blog ids, with one user who can log in and
\* at most MaxCode posts per blog.
Inputs ==
    [ids |-> BlogIds,
     usernames |-> {"alice", "eve"},
     passwords |-> {"pw1", "pw2"},
     blogData |-> { <<<<"a">>, "u1", "e1">>, <<<<"a", "b">>, "u2", "e2">> },
     postData |-> { <<<<"t">>, <<"x">>>> },
     terms |-> { <<"b">> },
     maxCode |-> MaxCode]

Next == NextOn(Inputs)

Spec == Init /\ [][Next]_vars

\* SpecSession: the same operations on one blog id, with both users of the
\* users file, an unknown user and both passwords.
SessionInputs ==
    [ids |-> {1},
     usernames |-> {"alice", "bob", "eve"},
     passwords |-> {"pw1", "pw2"},
     blogData |-> { <<<<"a">>, "u1", "e1">> },
     postData |-> { <<<<"t">>, <<"x">>>> },
     terms |-> { <<"a">> },
     maxCode |-> MaxCode]

NextSession == NextOn(SessionInputs)

SpecSession == Init /\ [][NextSession]_vars

\* SpecPosts: the same operations on one blog id, with up to MaxPostCode
\* posts of two contents.
PostsInputs ==
    [ids |-> {1},
     usernames |-> {"alice"},
     passwords |-> {"pw1"},
     blogData |-> { <<<<"a">>, "u1", "e1">> },
     postData |-> { <<<<"t">>, <<"x">>>>, <<<<"t", "t">>, <<"y">>>> },
     terms |-> { <<"y">> },
     maxCode |-> MaxPostCode]

NextPosts == NextOn(PostsInputs)

SpecPosts == Init /\ [][NextPosts]_vars

\* SpecBlogs: the session and blog operations of Spec, and no post.
NextBlogs ==
    \/ SessionOp(Inputs)
    \/ BlogOp(Inputs)
    \/ \E a \in BOOLEAN : Restart(a)

SpecBlogs == Init /\ [][NextBlogs]_vars

\* SpecCreate: blogs are created and selected and posts created, with the
\* ids, contents and post codes of Spec.
CreateInputs == [Inputs EXCEPT !.usernames = {"alice"}, !.passwords = {"pw1"}]

NextCreate ==
    \/ SessionOp(CreateInputs)
    \/ \E id \in CreateInputs.ids, d \in CreateInputs.blogData :
           create_blog(id, d[1], d[2], d[3])
    \/ \E id \in CreateInputs.ids : set_current_blog(id)
    \/ \E d \in CreateInputs.postData :
           CounterBelow(CreateInputs.maxCode) /\ create_post(d[1], d[2])
    \/ \E a \in BOOLEAN : Restart(a)

SpecCreate == Init /\ [][NextCreate]_vars

\* SpecTime: the operations on one blog id, with a clock that ticks between
\* two readings, up to the reading MaxClock.
TimeInputs ==
    [ids |-> {1},
     usernames |-> {"alice"},
     passwords |-> {"pw1"},
     blogData |-> { <<<<"a">>, "u1", "e1">> },
     postData |-> { <<<<"t">>, <<"x">>>>, <<<<"t", "t">>, <<"y">>>> },
     terms |-> { <<"y">> },
     maxCode |-> MaxCode]

InitTime == Boot(1, {MissingFile}, {[i \in BlogIds |-> MissingFile]})

NextTime == clock < MaxClock /\ NextOn(TimeInputs)

SpecTime == InitTime /\ [][NextTime]_vars

\* SpecFrame: blogs are created, updated, deleted and selected and posts
\* created, updated and deleted: two blogs, the current one and another,
\* with the post codes of Spec, one user and one content.
FrameInputs ==
    [CreateInputs EXCEPT !.ids = {1, 2}, !.blogData = { <<<<"a">>, "u1", "e1">> }]

NextFrame ==
    \/ SessionOp(FrameInputs)
    \/ \E id \in FrameInputs.ids, d \in FrameInputs.blogData :
           create_blog(id, d[1], d[2], d[3])
    \/ \E orig \in FrameInputs.ids, id \in FrameInputs.ids, d \in FrameInputs.blogData :
           update_blog(orig, id, d[1], d[2], d[3])
    \/ \E id \in FrameInputs.ids : delete_blog(id)
    \/ \E id \in FrameInputs.ids : set_current_blog(id)
    \/ unset_current_blog
    \/ \E d \in FrameInputs.postData :
           CounterBelow(FrameInputs.maxCode) /\ create_post(d[1], d[2])
    \/ \E code \in 1..FrameInputs.maxCode, d \in FrameInputs.postData :
           update_post(code, d[1], d[2])
    \/ \E code \in 1..FrameInputs.maxCode : delete_post(code)

SpecFrame == Init /\ [][NextFrame]_vars

\* SpecStores: the operations of SpecSession, started on stores that are
\* missing, empty, corrupt or as the program wrote them.  A posts file is
\* corrupt in one of the ways pickle.load fails: pickle.UnpicklingError
\* (b"abc"), EOFError (a truncated dump) or ValueError (b"garbage\n").
StoredBlog == [id |-> 1, name |-> <<"a">>, url |-> "u1", email |-> "e1"]

BlogsFiles ==
    { MissingFile, EmptyFile, CorruptFile("JSONDecodeError"), FileOf(<<StoredBlog>>) }

PostsFileKinds ==
    { MissingFile, EmptyFile, CorruptFile("UnpicklingError"), CorruptFile("EOFError"),
      CorruptFile("ValueError"), FileOf(<<Post(1, <<"t">>, <<"x">>, 0)>>) }

PostsFiles ==
    { [i \in BlogIds |-> IF i = StoredBlog.id THEN f ELSE MissingFile] :
         f \in PostsFileKinds }

InitStores == Boot(0, BlogsFiles, PostsFiles)

\* There is a controller: its constructor did not raise.
Constructed == ~(op \in {"init", "restart"} /\ result.kind = "raise")

NextStores ==
    \/ Constructed /\ SessionOp(SessionInputs)
    \/ Constructed /\ BlogOp(SessionInputs)
    \/ Constructed /\ PostOp(SessionInputs)
    \/ \E a \in BOOLEAN : Restart(a)

SpecStores == InitStores /\ [][NextStores]_vars

\* SpecSelect: the session and blog operations on one more blog id than Spec
\* has, so that a blog's id can change to an unused one while another blog
\* is current and a third is stored; one user and one content.
SelectInputs ==
    [ids |-> 1..(MaxBlogId + 1),
     usernames |-> {"alice"},
     passwords |-> {"pw1"},
     blogData |-> { <<<<"a">>, "u1", "e1">> },
     postData |-> { <<<<"t">>, <<"x">>>> },
     terms |-> { <<"a">> },
     maxCode |-> MaxCode]

InitSelect ==
    Boot(0, {MissingFile}, {[i \in SelectInputs.ids |-> MissingFile]})

NextSelect ==
    \/ SessionOp(SelectInputs)
    \/ BlogOp(SelectInputs)
    \/ \E a \in BOOLEAN : Restart(a)

SpecSelect == InitSelect /\ [][NextSelect]_vars

\* SpecGui: the operations of SpecSession, and the buttons of the post
\* manager dialog, clicked in any state with post numbers up to MaxCode + 1.
GuiOp(I) ==
    \/ \E code \in 1..(I.maxCode + 1), d \in I.postData :
           gui_handle_create(code, d[1], d[2])
    \/ \E code \in 1..(I.maxCode + 1), d \in I.postData :
           gui_handle_update(code, d[1], d[2])
    \/ \E code \in 1..(I.maxCode + 1), confirm \in BOOLEAN :
           gui_handle_delete(code, confirm)

GuiInputs == [SessionInputs EXCEPT !.usernames = {"alice", "eve"}]

NextGui ==
    \/ NextOn(GuiInputs)
    \/ GuiOp(GuiInputs)

SpecGui == Init /\ [][NextGui]_vars

-----------------------------------------------------------------------------
(* Properties *)

BlogOps ==
    { "search_blog", "create_blog", "retrieve_blogs", "update_blog", "delete_blog",
      "list_blogs", "set_current_blog", "get_current_blog", "unset_current_blog" }

PostOps ==
    { "search_post", "create_post", "retrieve_posts", "update_post", "delete_post",
      "list_posts" }

\* Some blog of the directory has a post.
SomePost == \E i \in DOMAIN blogs : heap[blogs[i].ref].posts # <<>>

\* C1: while no user is logged in, every blog and post operation of the
\* Controller raises IllegalAccessException, whatever its arguments, and the
\* blog collection, the blogs' posts, the current blog, the session and the
\* files stay as they are.
C1_LoggedOutDenied ==
    [][(~logged /\ op' \in BlogOps \cup PostOps)
          => /\ result' = Raise("IllegalAccessException")
             /\ UNCHANGED <<blogs, heap, current_blog, session, files>>]_vars

C1_Witness ==
    /\ ~logged
    /\ op \in {"create_post", "delete_blog"}
    /\ result = Raise("IllegalAccessException")
    /\ SomePost

\* C2: while a user is logged in and no blog is current, every post operation
\* raises NoCurrentBlogException and no blog's posts or post counter change,
\* in memory or in the posts files.
C2_NoCurrentBlogDenied ==
    [][(logged /\ current_blog = NoRef /\ op' \in PostOps)
          => /\ result' = Raise("NoCurrentBlogException")
             /\ UNCHANGED <<heap, postsFiles>>]_vars

C2_Witness ==
    /\ logged
    /\ current_blog = NoRef
    /\ op \in {"create_post", "delete_post"}
    /\ result = Raise("NoCurrentBlogException")
    /\ SomePost

\* C3: login while a user is logged in raises DuplicateLoginException for
\* every username and password, and the username, the password hash, the
\* logged flag and the current blog stay as they were.
C3_DuplicateLogin ==
    [][\A u \in SessionInputs.usernames, p \in SessionInputs.passwords :
          (logged /\ login(u, p))
             => /\ result' = Raise("DuplicateLoginException")
                /\ UNCHANGED <<username, password_hash, logged, current_blog>>]_vars

C3_Witness ==
    /\ logged
    /\ username = "alice"
    /\ current_blog # NoRef
    /\ op = "login"
    /\ result = Raise("DuplicateLoginException")

\* C4: login while logged out returns True, sets logged and records the
\* username exactly when the username is in the user table and the SHA-256
\* hash of the password is the stored hash; otherwise it raises
\* InvalidLoginException and the controller stays logged out, username None.
C4_LoginOutcome ==
    [][\A u \in SessionInputs.usernames, p \in SessionInputs.passwords :
          (~logged /\ login(u, p))
             => IF u \in DOMAIN users /\ users[u] = Sha256Hex(p)
                THEN result' = RetBool(TRUE) /\ logged' /\ username' = u
                ELSE /\ result' = Raise("InvalidLoginException")
                     /\ ~logged'
                     /\ username' = NoneStr]_vars

C4_Witness ==
    /\ ~logged
    /\ users # load_users(MissingFile)
    /\ op = "login"
    /\ result = Raise("InvalidLoginException")

\* C5: logout while logged out raises InvalidLogoutException and changes
\* nothing; logout while logged in clears the username, the password hash and
\* the current blog, a successful login leaves no blog selected, only
\* set_current_blog selects one, and get_current_blog returns the selection.
C5_Logout ==
    [][/\ (~logged /\ op' = "logout")
            => /\ result' = Raise("InvalidLogoutException")
               /\ UNCHANGED <<session, heap, blogs, current_blog, files>>
       /\ (logged /\ op' = "logout")
            => /\ result' = RetBool(TRUE)
               /\ ~logged'
               /\ username' = NoneStr
               /\ password_hash' = NoneStr
               /\ current_blog' = NoRef
       /\ (op' = "login" /\ result' = RetBool(TRUE)) => current_blog' = NoRef
       /\ (current_blog = NoRef /\ current_blog' # NoRef) => op' = "set_current_blog"
       /\ (logged /\ op' = "get_current_blog") => result' = RetBlog(current_blog)
      ]_vars

C5_Witness ==
    /\ op = "logout"
    /\ result = RetBool(TRUE)
    /\ ~logged
    /\ blogs # <<>>

\* C6: create_blog with an id that is in the collection raises
\* IllegalOperationException and leaves the collection, the blogs' fields and
\* posts and the files unchanged; with an unused id it adds exactly one blog,
\* with the given fields, after the others, and search_blog of the id finds
\* it; no id is a key twice.
C6_CreateBlogUniqueId ==
    [][\A id \in CreateInputs.ids, d \in CreateInputs.blogData :
          (logged /\ create_blog(id, d[1], d[2], d[3]))
             => IF id \in Keys(blogs)
                THEN /\ result' = Raise("IllegalOperationException")
                     /\ UNCHANGED <<blogs, heap, files>>
                ELSE /\ result'.kind = "blog"
                     /\ blogs' = Append(blogs, [key |-> id, ref |-> result'.ref])
                     /\ \A i \in DOMAIN blogs : heap'[blogs[i].ref] = heap[blogs[i].ref]
                     /\ BlogRecord(heap'[result'.ref])
                            = [id |-> id, name |-> d[1], url |-> d[2], email |-> d[3]]
                     /\ dao_search_blog(blogs', id) = result'.ref
                     /\ Cardinality(Keys(blogs')) = Len(blogs')]_vars

C6_Witness ==
    /\ op = "create_blog"
    /\ result = Raise("IllegalOperationException")
    /\ Len(blogs) = 2
    /\ SomePost

\* C7: update_blog and delete_blog aimed at the id of the current blog raise
\* IllegalOperationException, and the current blog keeps its id, name, url
\* and email and its place in the collection.
C7_CurrentBlogProtected ==
    [][\A orig \in Inputs.ids :
          (logged /\ current_blog # NoRef /\ heap[current_blog].id = orig)
             => /\ (\A id \in Inputs.ids, d \in Inputs.blogData :
                       update_blog(orig, id, d[1], d[2], d[3])
                          => /\ result' = Raise("IllegalOperationException")
                             /\ current_blog' = current_blog
                             /\ heap'[current_blog] = heap[current_blog]
                             /\ blogs' = blogs)
                /\ (delete_blog(orig)
                       => /\ result' = Raise("IllegalOperationException")
                          /\ current_blog' = current_blog
                          /\ heap'[current_blog] = heap[current_blog]
                          /\ blogs' = blogs)]_vars

C7_Witness ==
    /\ logged
    /\ current_blog # NoRef
    /\ Len(blogs) = 2
    /\ op \in {"update_blog", "delete_blog"}
    /\ result = Raise("IllegalOperationException")
    /\ \A i \in DOMAIN blogs : BlogEq(heap[blogs[i].ref], heap[current_blog])
                                  => blogs[i].ref = current_blog

\* C8: set_current_blog with an id of the collection makes the blog stored
\* under that id, whose id it is, the one get_current_blog returns; with any
\* other id it raises IllegalOperationException and the selection stays as it
\* was; after unset_current_blog no blog is selected.
C8_SetCurrentBlog ==
    [][/\ \A id \in Inputs.ids :
             (logged /\ set_current_blog(id))
                => IF id \in Keys(blogs)
                   THEN /\ result' = RetBool(TRUE)
                        /\ current_blog' = DictGet(blogs, id)
                        /\ heap'[current_blog'].id = id
                   ELSE /\ result' = Raise("IllegalOperationException")
                        /\ current_blog' = current_blog
       /\ (logged /\ op' = "unset_current_blog")
             => result' = RetBool(TRUE) /\ current_blog' = NoRef
       /\ (logged /\ op' = "get_current_blog") => result' = RetBlog(current_blog)
      ]_vars

C8_Witness ==
    /\ logged
    /\ current_blog # NoRef
    /\ op = "set_current_blog"
    /\ result = Raise("IllegalOperationException")

\* What list_posts returns for blog object r of heap h.
Listed(h, r) == dao_list_posts(h[r].posts)

Codes(l) == [i \in DOMAIN l |-> l[i].code]

\* C9: list_posts returns every post of the current blog exactly once, the
\* most recently added first: a created post comes first in the listing,
\* before the posts listed until then; an update changes the title and text
\* of the post with the code and no position; a delete takes the post with
\* the code out and keeps the others in order.
C9_ListPostsOrder ==
    [][(logged /\ current_blog # NoRef)
          => LET posts == heap[current_blog].posts
                 old == Listed(heap, current_blog)
                 new == Listed(heap', current_blog)
             IN /\ op' = "list_posts"
                     => /\ result' = RetPosts(old)
                        /\ Len(old) = Len(posts)
                        /\ \A i \in DOMAIN posts :
                               Cardinality({ j \in DOMAIN old : old[j] = posts[i] }) = 1
                /\ \A d \in PostsInputs.postData :
                       create_post(d[1], d[2])
                          => /\ new = <<result'.list[1]>> \o old
                             /\ new[1].title = d[1]
                             /\ new[1].text = d[2]
                             /\ \A j \in DOMAIN old : old[j].code # new[1].code
                /\ \A code \in 1..(PostsInputs.maxCode + 1), d \in PostsInputs.postData :
                       update_post(code, d[1], d[2])
                          => /\ Codes(new) = Codes(old)
                             /\ \A j \in DOMAIN old :
                                    IF old[j].code = code
                                    THEN /\ new[j].code = code
                                         /\ new[j].title = d[1]
                                         /\ new[j].text = d[2]
                                    ELSE new[j] = old[j]
                /\ \A code \in 1..(PostsInputs.maxCode + 1) :
                       delete_post(code)
                          => new = SelectSeq(old, LAMBDA p : p.code # code)]_vars

C9_Witness ==
    /\ logged
    /\ current_blog # NoRef
    /\ op = "list_posts"
    /\ result.kind = "posts"
    /\ Len(result.list) = 3
    /\ Codes(result.list) = <<3, 2, 1>>
    /\ result.list[2].title # result.list[3].title

\* What list_posts returns for the blog of the id once the program has been
\* started again, a user has logged in and the blog has been selected.
AfterRestart(id) ==
    LET loaded == load_blogs(cfgAutosave, blogsFile, postsFiles)
        r == dao_search_blog(loaded.blogs, id)
    IN [found |-> r # NoRef,
        posts |-> IF r = NoRef THEN <<>> ELSE Listed(loaded.heap, r)]

PostsOf(d, h, k) == h[DictGet(d, k)].posts

GuiOps == { "_handle_create", "_handle_update", "_handle_delete" }

\* C12: while no user is logged in or no blog is current, no post is
\* created, changed or removed: every post operation of the Controller and
\* every button of the post manager dialog, _handle_create with its direct
\* blog.post_dao.create_post included, leaves the posts and counters of all
\* blogs as they are, and no step changes a posts file.
C12_NoPostWithoutSession ==
    [][(~logged \/ current_blog = NoRef)
          => /\ op' \in PostOps \cup GuiOps => UNCHANGED <<heap, blogs>>
             /\ UNCHANGED postsFiles]_vars

C12_Witness ==
    /\ op = "_handle_create"
    /\ result = Status("Select a current blog first.")
    /\ ~logged
    /\ SomePost
    /\ cfgAutosave

\* C13: if no user is logged in then no blog is current and username is
\* None: a blog is selected only inside a login session.
C13_LoggedOutNoSelection ==
    ~logged => (current_blog = NoRef /\ username = NoneStr)

C13_Witness ==
    /\ ~logged
    /\ op = "logout"
    /\ result = RetBool(TRUE)
    /\ Len(blogs) = 2
    /\ current_blog = NoRef

\* C14: a current blog is a blog of the collection, stored under its own id.
C14_CurrentBlogStored ==
    current_blog # NoRef
        => \E i \in DOMAIN blogs :
              /\ blogs[i].ref = current_blog
              /\ blogs[i].key = heap[current_blog].id

C14_Witness ==
    /\ current_blog # NoRef
    /\ op = "update_blog"
    /\ result = RetBool(TRUE)
    /\ Len(blogs) = 3
    /\ blogs[1].ref = current_blog
    /\ blogs[1].key = 2
    /\ blogs[2].key = 1
    /\ blogs[3].key = 3

\* C15: each blog of the collection is stored under the key that is its id,
\* so search_blog(i) returns None or a blog whose id is i and list_blogs
\* returns no two blogs with the same id.
C15_KeyIsId ==
    /\ \A i \in DOMAIN blogs : heap[blogs[i].ref].id = blogs[i].key
    /\ \A i \in BlogIds :
          dao_search_blog(blogs, i) # NoRef => heap[dao_search_blog(blogs, i)].id = i
    /\ LET l == dao_list_blogs(blogs)
       IN \A i, j \in DOMAIN l : heap[l[i]].id = heap[l[j]].id => i = j
    /\ op = "search_blog" /\ result.kind = "blog"
          => \E i \in DOMAIN blogs : blogs[i].ref = result.ref
    /\ op = "list_blogs" /\ result.kind = "blogs"
          => \A i, j \in DOMAIN result.list :
                heap[result.list[i]].id = heap[result.list[j]].id => i = j

C15_Witness ==
    /\ op = "list_blogs"
    /\ result.kind = "blogs"
    /\ Len(result.list) = 2
    /\ heap[result.list[1]].id = 2

\* The (id, name, url, email) records of the blogs of directory d, in order.
Records(d, h) == [i \in DOMAIN d |-> BlogRecord(h[d[i].ref])]

\* C16: whenever update_blog raises IllegalOperationException, the id, name,
\* url and email of every blog of the collection are as before the call.
C16_UpdateBlogAllOrNothing ==
    [][(op' = "update_blog" /\ result' = Raise("IllegalOperationException"))
          => Records(blogs', heap') = Records(blogs, heap)]_vars

\* The blog records of the blogs file, as a set (none when there is no file).
FileRecords(file) == { file.data[i] : i \in DOMAIN file.data }

\* C17: with autosave on, after every create_blog, update_blog and
\* delete_blog, returned or raised, the records of the blogs file are the
\* (id, name, url, email) records of the blogs in memory.
C17_BlogsFileInSync ==
    (cfgAutosave /\ op \in {"create_blog", "update_blog", "delete_blog"})
        => FileRecords(blogsFile)
              = { Records(blogs, heap)[i] : i \in DOMAIN blogs }

\* The posts and counter of the blog stored under key k are the same after
\* the step as before it.
SameStore(k) ==
    StoreOf(heap'[DictGet(blogs', k)]) = StoreOf(heap[DictGet(blogs, k)])

\* C18: create_post, update_post and delete_post leave the posts, the counter
\* and the posts file of every blog but the current one as they are, and
\* create_blog, update_blog and delete_blog leave the posts and the counter of
\* every blog that stays under its key, and every posts file, as they are;
\* one blog at most, the one they are called on, leaves its key, and none
\* does on create_blog.
C18_PostOpsConfined ==
    [][/\ (logged /\ current_blog # NoRef
              /\ op' \in {"create_post", "update_post", "delete_post"})
             => /\ blogs' = blogs
                /\ current_blog' = current_blog
                /\ \A i \in DOMAIN blogs :
                       blogs[i].ref # current_blog
                          => heap'[blogs[i].ref] = heap[blogs[i].ref]
                /\ \A k \in DOMAIN postsFiles :
                       k # heap[current_blog].id => postsFiles'[k] = postsFiles[k]
       /\ op' \in {"create_blog", "update_blog", "delete_blog"}
             => /\ \A k \in Keys(blogs) \cap Keys(blogs') : SameStore(k)
                /\ Cardinality(Keys(blogs) \ Keys(blogs')) <= 1
                /\ op' = "create_blog" => Keys(blogs) \subseteq Keys(blogs')
                /\ UNCHANGED postsFiles
      ]_vars

C18_Witness ==
    /\ op = "delete_post"
    /\ result = RetBool(TRUE)
    /\ Len(blogs) = 2
    /\ \E i \in DOMAIN blogs :
          /\ blogs[i].ref # current_blog
          /\ heap[blogs[i].ref].posts # <<>>
    /\ heap[current_blog].posts = <<>>

\* C19: a Controller constructed with autosave = True persists its data
\* whatever Configuration.autosave is: every blog of its collection is found
\* after a restart, with the posts it has.
C19_ControllerAutosavePersists ==
    autosave
        => \A i \in DOMAIN blogs :
              LET after == AfterRestart(blogs[i].key)
              IN after.found /\ after.posts = Listed(heap, blogs[i].ref)

\* C20: missing or unreadable stores make the system start empty instead of
\* failing: the constructor does not raise; with no users file the user table
\* is empty and every login raises InvalidLoginException; with a missing or
\* invalid blogs file the collection is empty; a blog whose posts file is
\* missing, empty or corrupt is there with no posts and counter 0.
C20_StartsEmpty ==
    /\ op \in {"init", "restart"}
          => /\ result = RetNone
             /\ usersFile = MissingFile => DOMAIN users = {}
             /\ blogsFile.state # "ok" => blogs = <<>>
             /\ \A i \in DOMAIN blogs :
                    postsFiles[blogs[i].key].state # "ok"
                       => /\ heap[blogs[i].ref].posts = <<>>
                          /\ heap[blogs[i].ref].counter = 0
    /\ (op = "login" /\ usersFile = MissingFile)
          => result = Raise("InvalidLoginException")
    /\ op = "create_blog"
          => result.exc \in {"", "IllegalAccessException", "IllegalOperationException"}

=============================================================================
